---- MODULE Spec2Model ----
(***************************************************************************)
(* objmod: path-addressed access to nested JavaScript objects.             *)
(*                                                                         *)
(* JavaScript objects are modelled as a heap of objects addressed by       *)
(* reference, because merge and cache store references to live objects.    *)
(* An object is the ordered list of its own enumerable properties          *)
(* (insertion order, which is the order of Object.entries for keys that    *)
(* are not array indices). A string is the sequence of its characters, so  *)
(* that String.split and the template `${prefix}.${key}` are computed.     *)
(* Arrays and index-like keys are not among the inputs.                    *)
(*                                                                         *)
(* Spec is the library called on one object; CacheSpec is one cache(obj)   *)
(* with the caller writing obj next to it. The variables base, dirty,      *)
(* added and found record history for the cache claims; no code reads them.*)
(***************************************************************************)
EXTENDS Integers, Sequences, FiniteSets, TLC

(* ------------------------------ bounds -------------------------------- *)

\* number of library calls made on the object after it is built
MaxSteps == 2

\* number of cache calls and direct mutations after cache(obj)
MaxCacheSteps == 3

(* --------------------------- JavaScript values ------------------------- *)

Prim(n) == [k |-> "prim", n |-> n]
UNDEF == [k |-> "undefined", n |-> 0]
NULL == [k |-> "null", n |-> 0]
Ref(i) == [k |-> "object", n |-> i]
Bool(b) == [k |-> "boolean", n |-> IF b THEN 1 ELSE 0]

\* typeof v === "object" && v !== null
IsObject(v) == v.k = "object"

(* An object of the heap: a sequence of [key, val], in insertion order. *)

\* key in value
HasKey(o, key) == \E i \in 1..Len(o) : o[i].key = key

\* value[key] : undefined when the key is absent
Prop(o, key) ==
  IF HasKey(o, key)
    THEN o[CHOOSE i \in 1..Len(o) : o[i].key = key].val
    ELSE UNDEF

\* value[key] = v : an existing key keeps its position, a new key goes last
Assign(o, key, v) ==
  IF HasKey(o, key)
    THEN [i \in 1..Len(o) |->
            IF o[i].key = key THEN [key |-> key, val |-> v] ELSE o[i]]
    ELSE Append(o, [key |-> key, val |-> v])

(* ------------------------------ strings -------------------------------- *)

\* the string "undefined", the property name that `value[undefined]` uses
UndefinedKey == <<"u", "n", "d", "e", "f", "i", "n", "e", "d">>

\* path.split(".") : never empty; "" gives [""], "a." gives ["a", ""]
RECURSIVE split(_)
split(s) ==
  IF \A i \in 1..Len(s) : s[i] # "."
    THEN <<s>>
    ELSE LET d == CHOOSE i \in 1..Len(s) :
                    s[i] = "." /\ \A j \in 1..(i - 1) : s[j] # "."
         IN <<SubSeq(s, 1, d - 1)>> \o split(SubSeq(s, d + 1, Len(s)))

\* address.filter(Boolean) : drops the empty segments
filterBoolean(address) == SelectSeq(address, LAMBDA seg : seg # <<>>)

\* prefix ? `${prefix}.${key}` : key
joinPath(prefix, key) ==
  IF prefix # <<>> THEN prefix \o <<".">> \o key ELSE key

\* the exit test of a loop over entries i..n that carries acc (the heap, the
\* Map) from one iteration to the next. Each iteration's writes are complete
\* before the next iteration starts, so acc is evaluated at every test;
\* Len(acc) < 0 is never true and only makes TLC evaluate acc here.
loopEnd(i, n, acc) == i > n \/ Len(acc) < 0

(* --------------------------- get / has / set / del --------------------- *)

RECURSIVE getWalk(_, _, _, _, _)
getWalk(h, value, address, i, def) ==
  IF i > Len(address) THEN value
  ELSE IF ~IsObject(value) \/ ~HasKey(h[value.n], address[i]) THEN def
  ELSE getWalk(h, Prop(h[value.n], address[i]), address, i + 1, def)

\* get(obj, path, def) ; def is UNDEF when the argument is omitted
get(h, o, path, def) == getWalk(h, Ref(o), split(path), 1, def)

RECURSIVE hasWalk(_, _, _, _)
hasWalk(h, value, address, i) ==
  IF i > Len(address) THEN TRUE
  ELSE IF ~IsObject(value) \/ ~HasKey(h[value.n], address[i]) THEN FALSE
  ELSE hasWalk(h, Prop(h[value.n], address[i]), address, i + 1)

\* has(obj, path)
has(h, o, path) == hasWalk(h, Ref(o), split(path), 1)

\* one iteration of set's loop and the rest: a key that holds no object gets
\* a fresh {} ; returns the heap and the object the loop ends on
RECURSIVE setWalk(_, _, _, _, _)
setWalk(h, cur, address, i, n) ==
  IF i > n THEN [h |-> h, value |-> cur]
  ELSE LET key == address[i]
           h1 == IF ~IsObject(Prop(h[cur], key))
                   THEN [Append(h, <<>>) EXCEPT
                           ![cur] = Assign(h[cur], key, Ref(Len(h) + 1))]
                   ELSE h
       IN setWalk(h1, Prop(h1[cur], key).n, address, i + 1, n)

\* set(obj, path, val) of the full library: the loop runs over every segment,
\* the last one included, and the function has no return after the guard
set(h, o, path, val) ==
  IF path = <<>> THEN [h |-> h, ret |-> Bool(FALSE)]
  ELSE LET address == filterBoolean(split(path))
           w == setWalk(h, o, address, 1, Len(address))
           lastKey == IF Len(address) = 0 THEN UndefinedKey
                      ELSE address[Len(address)]
       IN [h |-> [w.h EXCEPT ![w.value] = Assign(@, lastKey, val)],
           ret |-> UNDEF]

\* set(obj, path, val) of the get/set/has module: the loop stops before the
\* last segment
set2(h, o, path, val) ==
  IF path = <<>> THEN [h |-> h, ret |-> Bool(FALSE)]
  ELSE LET address == filterBoolean(split(path))
       IN IF Len(address) = 0 THEN [h |-> h, ret |-> Bool(FALSE)]
          ELSE LET w == setWalk(h, o, address, 1, Len(address) - 1)
                   lastKey == address[Len(address)]
               IN [h |-> [w.h EXCEPT ![w.value] = Assign(@, lastKey, val)],
                   ret |-> Bool(TRUE)]

\* del's loop: every segment, the last one included, must hold an object
RECURSIVE delWalk(_, _, _, _)
delWalk(h, cur, address, i) ==
  IF i > Len(address) THEN [found |-> TRUE, value |-> cur]
  ELSE LET key == address[i]
       IN IF ~HasKey(h[cur], key) \/ ~IsObject(Prop(h[cur], key))
            THEN [found |-> FALSE, value |-> cur]
            ELSE delWalk(h, Prop(h[cur], key).n, address, i + 1)

\* del(obj, path)
del(h, o, path) ==
  LET address == split(path)
      w == delWalk(h, o, address, 1)
      lastKey == address[Len(address)]
  IN IF ~w.found THEN [h |-> h, ret |-> UNDEF]
     ELSE [h |-> [h EXCEPT ![w.value] = Assign(@, lastKey, UNDEF)],
           ret |-> Prop(h[w.value], lastKey)]

(* ------------------------------- scan ---------------------------------- *)

(* A Map: a sequence of [path, value] in insertion order. *)

\* map.has(path)
MapHas(m, path) == \E i \in 1..Len(m) : m[i].path = path

\* map.get(path)
MapGet(m, path) ==
  IF MapHas(m, path)
    THEN m[CHOOSE i \in 1..Len(m) : m[i].path = path].value
    ELSE UNDEF

\* map.set(path, value) : an existing key keeps its position
MapSet(m, path, value) ==
  IF MapHas(m, path)
    THEN [i \in 1..Len(m) |->
            IF m[i].path = path THEN [path |-> path, value |-> value] ELSE m[i]]
    ELSE Append(m, [path |-> path, value |-> value])

\* scan with the recursive call moved before map.set: children come first
RECURSIVE scanFrom_childrenFirst(_, _, _, _, _)
scanFrom_childrenFirst(h, o, i, prefix, m) ==
  IF loopEnd(i, Len(h[o]), m) THEN m
  ELSE LET e == h[o][i]
           path == joinPath(prefix, e.key)
           m1 == IF IsObject(e.val)
                   THEN scanFrom_childrenFirst(h, e.val.n, 1, path, m)
                   ELSE m
           m2 == MapSet(m1, path, e.val)
       IN scanFrom_childrenFirst(h, o, i + 1, prefix, m2)

\* the for loop of scan from entry i of object o, recursion included
RECURSIVE scanFrom(_, _, _, _, _)
scanFrom(h, o, i, prefix, m) ==
  IF loopEnd(i, Len(h[o]), m) THEN m
  ELSE LET e == h[o][i]
           path == joinPath(prefix, e.key)
           m1 == MapSet(m, path, e.val)
           m2 == IF IsObject(e.val) THEN scanFrom(h, e.val.n, 1, path, m1)
                 ELSE m1
       IN scanFrom(h, o, i + 1, prefix, m2)

\* scan(obj)
scan(h, o) == scanFrom(h, o, 1, <<>>, <<>>)

\* the objects held as values of object o
children(h, o) ==
  {h[o][i].val.n : i \in {j \in 1..Len(h[o]) : IsObject(h[o][j].val)}}

\* the objects reached from the set S in at most n further steps
RECURSIVE reach(_, _, _)
reach(h, S, n) ==
  IF n = 0 THEN S
  ELSE reach(h, S \cup UNION {children(h, x) : x \in S}, n - 1)

\* scan(obj) recurses into every object value and keeps no visited set: when
\* an object below obj (or obj) is reached from itself, the recursion does
\* not end and the call throws RangeError (call stack exhausted)
cyclic(h, o) ==
  \E x \in reach(h, {o}, Len(h)) : x \in reach(h, children(h, x), Len(h))

RangeError == [k |-> "RangeError", n |-> 0]

(* --------------------------- merge / filter ---------------------------- *)

\* map.forEach((value, path) => set(target, path, value)) from entry i
RECURSIVE mergeEach(_, _, _, _)
mergeEach(h, target, m, i) ==
  IF loopEnd(i, Len(m), h) THEN h
  ELSE mergeEach(set(h, target, m[i].path, m[i].value).h, target, m, i + 1)

\* merge(target, source)
merge(h, target, src) ==
  [h |-> mergeEach(h, target, scan(h, src), 1), ret |-> Ref(target)]

\* path.includes(c)
includes(path, c) == \E i \in 1..Len(path) : path[i] = c

(* The callbacks (path, value) => boolean passed to filter: the example's   *)
(* path.includes(...), the README's typeof test, one that rejects all,     *)
(* and (path) => path !== p, which rejects one entry.                      *)
Fn(kind) == [kind |-> kind, path |-> <<>>]
Except(path) == [kind |-> "except", path |-> path]

Callbacks == {Fn("includes_b"), Fn("is_number"), Fn("is_object"), Fn("never")}

func(fn, path, value) ==
  CASE fn.kind = "includes_b" -> includes(path, "b")
    [] fn.kind = "is_number" -> value.k = "prim"
    [] fn.kind = "is_object" -> value.k \in {"object", "null"}
    [] fn.kind = "never" -> FALSE
    [] fn.kind = "except" -> path # fn.path

\* map.forEach((value, path) => func(path, value) ? null : del(obj, path))
RECURSIVE filterEach(_, _, _, _, _)
filterEach(h, o, m, i, fn) ==
  IF loopEnd(i, Len(m), h) THEN h
  ELSE filterEach(IF func(fn, m[i].path, m[i].value) THEN h
                  ELSE del(h, o, m[i].path).h,
                  o, m, i + 1, fn)

\* filter(obj, func)
filter(h, o, fn) ==
  [h |-> filterEach(h, o, scan(h, o), 1, fn), ret |-> UNDEF]

(* The callbacks (path, value) => newValue passed to map: the identity, the *)
(* example's path.includes(...) ? "not-found" : value (Prim(0) stands for   *)
(* the string), the README's typeof value === 'number' ? value * 2 : value. *)
Mappers == {Fn("identity"), Fn("not_found"), Fn("double")}

mapper(fn, path, value) ==
  CASE fn.kind = "identity" -> value
    [] fn.kind = "not_found" -> IF includes(path, "b") THEN Prim(0) ELSE value
    [] fn.kind = "double" -> IF value.k = "prim" THEN Prim(2 * value.n) ELSE value

\* map.forEach((value, path) => set(obj, path, func(path, value))) from entry i
RECURSIVE mapEach(_, _, _, _, _)
mapEach(h, o, m, i, fn) ==
  IF loopEnd(i, Len(m), h) THEN h
  ELSE mapEach(set(h, o, m[i].path, mapper(fn, m[i].path, m[i].value)).h,
               o, m, i + 1, fn)

\* map(obj, func) ; named mapAll because map is the cache's index
mapAll(h, o, fn) ==
  [h |-> mapEach(h, o, scan(h, o), 1, fn), ret |-> UNDEF]

(* -------------------------------- cache -------------------------------- *)

\* _get without the index lookup: every call reads obj
cache_get_readThrough(h, o, m, path, def) ==
  LET value == get(h, o, path, def)
  IN [m |-> MapSet(m, path, value), ret |-> value]

\* _get without map.set(path, value): a miss is not recorded
cache_get_noInsert(h, o, m, path, def) ==
  IF MapHas(m, path) THEN [m |-> m, ret |-> MapGet(m, path)]
  ELSE [m |-> m, ret |-> get(h, o, path, def)]

\* _get(path, def)
cache_get(h, o, m, path, def) ==
  IF MapHas(m, path) THEN [m |-> m, ret |-> MapGet(m, path)]
  ELSE LET value == get(h, o, path, def)
       IN [m |-> MapSet(m, path, value), ret |-> value]

\* _set with map.clear() before map.set(path, value)
cache_set_clear(h, o, m, path, value) ==
  LET r == set(h, o, path, value)
  IN [h |-> r.h, m |-> MapSet(<<>>, path, value), ret |-> r.ret]

\* _set(path, value)
cache_set(h, o, m, path, value) ==
  LET r == set(h, o, path, value)
  IN [h |-> r.h, m |-> MapSet(m, path, value), ret |-> r.ret]

\* _has(path)
cache_has(m, path) == MapHas(m, path)

\* scan(obj).forEach((value, path) => map.set(path, value)) from entry i
RECURSIVE refreshEach(_, _, _)
refreshEach(m, s, i) ==
  IF loopEnd(i, Len(s), m) THEN m
  ELSE refreshEach(MapSet(m, s[i].path, s[i].value), s, i + 1)

\* _refresh() : map.clear(), then the index is filled from a new scan
cache_refresh(h, o) == refreshEach(<<>>, scan(h, o), 1)

(* --------------------------- object literals --------------------------- *)

(* An object literal is a sequence of [key, val]; val is a value or a      *)
(* nested literal [k |-> "lit", e |-> entries].                            *)
Lit(entries) == [k |-> "lit", e |-> entries]
KV(key, val) == [key |-> key, val |-> val]

\* evaluating a literal allocates one object per {...}
RECURSIVE alloc(_, _)
RECURSIVE allocFill(_, _, _, _)
alloc(h, entries) == allocFill(Append(h, <<>>), Len(h) + 1, entries, 1)
allocFill(h, id, entries, i) ==
  IF i > Len(entries) THEN [h |-> h, id |-> id]
  ELSE LET e == entries[i]
       IN IF e.val.k = "lit"
            THEN LET a == alloc(h, e.val.e)
                 IN allocFill([a.h EXCEPT ![id] = Append(@, KV(e.key, Ref(a.id)))],
                              id, entries, i + 1)
            ELSE allocFill([h EXCEPT ![id] = Append(@, e)], id, entries, i + 1)

\* an argument that is a value, or a literal evaluated before the call
evalArg(h, arg) ==
  IF arg.k = "lit"
    THEN LET a == alloc(h, arg.e) IN [h |-> a.h, v |-> Ref(a.id)]
    ELSE [h |-> h, v |-> arg]

(* ------------------------- direct mutation ---------------------------- *)

\* obj.a.b = v written by the caller, as in  obj.name = "amir" : possible
\* when every segment before the last resolves to an object
canAssign(h, o, path) ==
  LET address == split(path)
  IN IsObject(getWalk(h, Ref(o), SubSeq(address, 1, Len(address) - 1), 1, UNDEF))

assign(h, o, path, v) ==
  LET address == split(path)
      parent == getWalk(h, Ref(o), SubSeq(address, 1, Len(address) - 1), 1, UNDEF)
  IN [h EXCEPT ![parent.n] = Assign(@, address[Len(address)], v)]

(* ------------------------------ inputs --------------------------------- *)

A == <<"a">>
B == <<"b">>
AdotB == <<"a", ".", "b">>
BdotA == <<"b", ".", "a">>
AdotBdotA == <<"a", ".", "b", ".", "a">>

\* paths of one or more non-empty segments
ValidPaths == {A, B, AdotB, BdotA, AdotBdotA}

\* "", "." and "a..b"
MalformedPaths == {<<>>, <<".">>, <<"a", ".", ".", "b">>}

Paths == ValidPaths \cup MalformedPaths

\* values passed to set: a number, null, a new {}
Values == {Prim(2), NULL, Lit(<<>>)}

\* the objects the calls start from, shaped like the examples' obj:
\* {}, {a: 1}, {a: 1, b: {a: 1, b: null}}, {a: {a: 1, b: {a: 1}}}
InitialObjects ==
  { <<>>,
    <<KV(A, Prim(1))>>,
    <<KV(A, Prim(1)), KV(B, Lit(<<KV(A, Prim(1)), KV(B, NULL)>>))>>,
    <<KV(A, Lit(<<KV(A, Prim(1)), KV(B, Lit(<<KV(A, Prim(1))>>))>>))>> }

\* sources of merge: {b: 2}, {a: {b: 2}}, {b: {b: 2, a: {a: 2}}}
Sources ==
  { <<KV(B, Prim(2))>>,
    <<KV(A, Lit(<<KV(B, Prim(2))>>))>>,
    <<KV(B, Lit(<<KV(B, Prim(2)), KV(A, Lit(<<KV(A, Prim(2))>>))>>))>> }

\* paths passed to the cache and assigned directly next to it
CachePaths == {A, B, AdotB}

\* the paths of a Map
MapPaths(m) == {m[i].path : i \in 1..Len(m)}

(* ------------------------------- state --------------------------------- *)

VARIABLES
  heap,      \* the objects, by reference
  obj,       \* the reference of the object under the calls
  map,       \* the cache's index
  call,      \* the last call and its arguments
  ret,       \* what the last call returned
  snap,      \* the scan a bulk call enumerated
  steps,     \* calls made so far
  base,      \* the heap when the index was last built (cache, _refresh)
  dirty,     \* how obj was written since: "direct", "set"
  added,     \* paths added to obj directly and not yet seen by the cache
  found      \* paths added directly that the cache saw since

vars == <<heap, obj, map, call, ret, snap, steps, base, dirty, added, found>>

cacheVars == <<map, base, dirty, added, found>>

NoCall == [op |-> "new", path |-> <<>>, val |-> UNDEF, fn |-> Fn(""), src |-> 0]
Call(op, path, val) == [NoCall EXCEPT !.op = op, !.path = path, !.val = val]

Init ==
  /\ \E lit \in InitialObjects :
       LET a == alloc(<<>>, lit) IN heap = a.h /\ obj = a.id
  /\ map = <<>>
  /\ call = NoCall
  /\ ret = UNDEF
  /\ snap = <<>>
  /\ steps = 0
  /\ base = <<>>
  /\ dirty = {}
  /\ added = {}
  /\ found = {}

Get ==
  /\ steps < MaxSteps
  /\ \E path \in Paths :
       /\ call' = Call("get", path, UNDEF)
       /\ ret' = get(heap, obj, path, UNDEF)
  /\ steps' = steps + 1
  /\ snap' = <<>>
  /\ UNCHANGED <<heap, obj>>
  /\ UNCHANGED cacheVars

Has ==
  /\ steps < MaxSteps
  /\ \E path \in Paths :
       /\ call' = Call("has", path, UNDEF)
       /\ ret' = Bool(has(heap, obj, path))
  /\ steps' = steps + 1
  /\ snap' = <<>>
  /\ UNCHANGED <<heap, obj>>
  /\ UNCHANGED cacheVars

Set ==
  /\ steps < MaxSteps
  /\ \E path \in Paths, arg \in Values :
       LET a == evalArg(heap, arg)
           r == set(a.h, obj, path, a.v)
       IN /\ call' = Call("set", path, a.v)
          /\ heap' = r.h
          /\ ret' = r.ret
  /\ steps' = steps + 1
  /\ snap' = <<>>
  /\ UNCHANGED obj
  /\ UNCHANGED cacheVars

Set2 ==
  /\ steps < MaxSteps
  /\ \E path \in Paths, arg \in Values :
       LET a == evalArg(heap, arg)
           r == set2(a.h, obj, path, a.v)
       IN /\ call' = Call("set2", path, a.v)
          /\ heap' = r.h
          /\ ret' = r.ret
  /\ steps' = steps + 1
  /\ snap' = <<>>
  /\ UNCHANGED obj
  /\ UNCHANGED cacheVars

Del ==
  /\ steps < MaxSteps
  /\ \E path \in Paths :
       LET r == del(heap, obj, path)
       IN /\ call' = Call("del", path, UNDEF)
          /\ heap' = r.h
          /\ ret' = r.ret
  /\ steps' = steps + 1
  /\ snap' = <<>>
  /\ UNCHANGED obj
  /\ UNCHANGED cacheVars

Scan ==
  /\ steps < MaxSteps
  /\ call' = Call("scan", <<>>, UNDEF)
  /\ ret' = IF cyclic(heap, obj) THEN RangeError
            ELSE [k |-> "map", m |-> scan(heap, obj)]
  /\ steps' = steps + 1
  /\ snap' = <<>>
  /\ UNCHANGED <<heap, obj>>
  /\ UNCHANGED cacheVars

Merge ==
  /\ steps < MaxSteps
  /\ \E lit \in Sources :
       LET a == alloc(heap, lit)
           r == merge(a.h, obj, a.id)
       IN /\ call' = [Call("merge", <<>>, UNDEF) EXCEPT !.src = a.id]
          /\ snap' = scan(a.h, a.id)
          /\ heap' = r.h
          /\ ret' = r.ret
  /\ steps' = steps + 1
  /\ UNCHANGED obj
  /\ UNCHANGED cacheVars

Filter ==
  /\ steps < MaxSteps
  /\ IF cyclic(heap, obj)
       THEN /\ call' = Call("filter", <<>>, UNDEF)
            /\ ret' = RangeError
            /\ snap' = <<>>
            /\ UNCHANGED heap
       ELSE \E fn \in Callbacks \cup {Except(p) : p \in MapPaths(scan(heap, obj))} :
              LET r == filter(heap, obj, fn)
              IN /\ call' = [Call("filter", <<>>, UNDEF) EXCEPT !.fn = fn]
                 /\ snap' = scan(heap, obj)
                 /\ heap' = r.h
                 /\ ret' = r.ret
  /\ steps' = steps + 1
  /\ UNCHANGED obj
  /\ UNCHANGED cacheVars

MapAll ==
  /\ steps < MaxSteps
  /\ IF cyclic(heap, obj)
       THEN /\ call' = Call("map", <<>>, UNDEF)
            /\ ret' = RangeError
            /\ snap' = <<>>
            /\ UNCHANGED heap
       ELSE \E fn \in Mappers :
              LET r == mapAll(heap, obj, fn)
              IN /\ call' = [Call("map", <<>>, UNDEF) EXCEPT !.fn = fn]
                 /\ snap' = scan(heap, obj)
                 /\ heap' = r.h
                 /\ ret' = r.ret
  /\ steps' = steps + 1
  /\ UNCHANGED obj
  /\ UNCHANGED cacheVars

Next == Get \/ Has \/ Set \/ Set2 \/ Del \/ Scan \/ Merge \/ Filter \/ MapAll

Spec == Init /\ [][Next]_vars

(* ------------------------- the cache's machine ------------------------- *)

\* c = cache(obj) : the index is built from one scan
CacheInit ==
  /\ \E lit \in InitialObjects :
       LET a == alloc(<<>>, lit)
       IN heap = a.h /\ obj = a.id /\ map = scan(a.h, a.id) /\ base = a.h
  /\ call = Call("cache", <<>>, UNDEF)
  /\ ret = UNDEF
  /\ snap = <<>>
  /\ steps = 0
  /\ dirty = {}
  /\ added = {}
  /\ found = {}

CacheGet ==
  /\ steps < MaxCacheSteps
  /\ \E path \in CachePaths, def \in {UNDEF, Prim(3)} :
       LET r == cache_get(heap, obj, map, path, def)
       IN /\ call' = Call("c.get", path, def)
          /\ map' = r.m
          /\ ret' = r.ret
          /\ added' = added \ {path}
          /\ found' = IF path \in added THEN found \cup {path} ELSE found
  /\ steps' = steps + 1
  /\ UNCHANGED <<heap, obj, snap, base, dirty>>

CacheSet ==
  /\ steps < MaxCacheSteps
  /\ \E path \in CachePaths, arg \in Values :
       LET a == evalArg(heap, arg)
           r == cache_set(a.h, obj, map, path, a.v)
       IN /\ call' = Call("c.set", path, a.v)
          /\ heap' = r.h
          /\ map' = r.m
          /\ ret' = r.ret
          /\ added' = added \ {path}
  /\ dirty' = dirty \cup {"set"}
  /\ steps' = steps + 1
  /\ UNCHANGED <<obj, snap, base, found>>

CacheHas ==
  /\ steps < MaxCacheSteps
  /\ \E path \in CachePaths :
       /\ call' = Call("c.has", path, UNDEF)
       /\ ret' = Bool(cache_has(map, path))
  /\ steps' = steps + 1
  /\ UNCHANGED <<heap, obj, map, snap, base, dirty, added, found>>

CacheRefresh ==
  /\ steps < MaxCacheSteps
  /\ call' = Call("c.refresh", <<>>, UNDEF)
  /\ map' = cache_refresh(heap, obj)
  /\ ret' = UNDEF
  /\ base' = heap
  /\ dirty' = {}
  /\ added' = {}
  /\ found' = {p \in added \cup found : has(heap, obj, p)}
  /\ steps' = steps + 1
  /\ UNCHANGED <<heap, obj, snap>>

\* the caller writes obj directly, next to the cache
DirectAssign ==
  /\ steps < MaxCacheSteps
  /\ \E path \in CachePaths, arg \in Values :
       /\ canAssign(heap, obj, path)
       /\ LET a == evalArg(heap, arg)
          IN /\ call' = Call("assign", path, a.v)
             /\ heap' = assign(a.h, obj, path, a.v)
       /\ added' = IF ~has(heap, obj, path) /\ ~MapHas(map, path)
                     THEN added \cup {path} ELSE added
  /\ ret' = UNDEF
  /\ dirty' = dirty \cup {"direct"}
  /\ steps' = steps + 1
  /\ UNCHANGED <<obj, map, snap, base, found>>

CacheNext == CacheGet \/ CacheSet \/ CacheHas \/ CacheRefresh \/ DirectAssign

CacheSpec == CacheInit /\ [][CacheNext]_vars

\* the cache used alone: obj is written by c.set only
CacheOwnNext == CacheGet \/ CacheSet \/ CacheHas \/ CacheRefresh

CacheOwnSpec == CacheInit /\ [][CacheOwnNext]_vars

(* ----------------------- notions the claims use ------------------------ *)

\* one or more segments, none of them empty
validPath(path) ==
  LET address == split(path)
  IN path # <<>> /\ \A i \in 1..Len(address) : address[i] # <<>>

\* the segments p are the first segments of q, and q has more
properPrefix(p, q) ==
  LET ps == split(p)
      qs == split(q)
  IN Len(ps) < Len(qs) /\ SubSeq(qs, 1, Len(ps)) = ps

\* the object that holds the last segment of path
parentOf(h, o, path) ==
  LET address == split(path)
  IN getWalk(h, Ref(o), SubSeq(address, 1, Len(address) - 1), 1, UNDEF)

\* object o with key removed: the other keys and their values, in order
without(o, key) == SelectSeq(o, LAMBDA e : e.key # key)

\* every node strictly below object o: its keys from o down, and its value
RECURSIVE nodesBelow(_, _)
nodesBelow(h, o) ==
  UNION { {[keys |-> <<h[o][i].key>>, value |-> h[o][i].val]}
            \cup (IF IsObject(h[o][i].val)
                    THEN {[keys |-> <<h[o][i].key>> \o nd.keys, value |-> nd.value] :
                            nd \in nodesBelow(h, h[o][i].val.n)}
                    ELSE {})
          : i \in 1..Len(h[o]) }

\* the keys joined by "."
RECURSIVE dotted(_)
dotted(keys) ==
  IF Len(keys) = 1 THEN keys[1]
  ELSE keys[1] \o <<".">> \o dotted(Tail(keys))

\* the position of a key among the keys of object o
keyIndex(o, key) == CHOOSE i \in 1..Len(o) : o[i].key = key

\* depth-first pre-order on two nodes given by their keys: an ancestor comes
\* before its descendants, otherwise the order is the one of the two
\* siblings at which the nodes part, in their container
preorderBefore(h, o, ks, qs) ==
  \/ Len(ks) < Len(qs) /\ SubSeq(qs, 1, Len(ks)) = ks
  \/ \E d \in 1..Len(ks) :
       /\ d <= Len(qs)
       /\ SubSeq(ks, 1, d - 1) = SubSeq(qs, 1, d - 1)
       /\ ks[d] # qs[d]
       /\ LET parent == getWalk(h, Ref(o), SubSeq(ks, 1, d - 1), 1, UNDEF).n
          IN keyIndex(h[parent], ks[d]) < keyIndex(h[parent], qs[d])

(* ------------------------------ claims --------------------------------- *)

\* C1: after set(r, p, v) with a valid path p (either definition of set),
\* get(r, p) returns v and has(r, p) is true.
C1_SetThenGet ==
  (call.op \in {"set", "set2"} /\ validPath(call.path))
    => /\ get(heap, obj, call.path, UNDEF) = call.val
       /\ has(heap, obj, call.path)

\* the same for the set of the get/set/has module alone (it holds there)
SetThenGet_set2 ==
  (call.op = "set2" /\ validPath(call.path))
    => /\ get(heap, obj, call.path, UNDEF) = call.val
       /\ has(heap, obj, call.path)

\* C2: after del(r, p), has(r, p) is false, and a second del(r, p) returns
\* undefined and leaves r unchanged.
C2_DelThenAbsent ==
  call.op = "del"
    => /\ ~has(heap, obj, call.path)
       /\ del(heap, obj, call.path).ret = UNDEF
       /\ del(heap, obj, call.path).h = heap

\* C3: del(r, p) on a path that exists returns the value get(r, p) had,
\* reading p afterwards yields undefined, and nothing changes in r but the
\* final segment of p inside its parent.
C3_DelReturnsPrior ==
  [][ (call'.op = "del" /\ has(heap, obj, call'.path))
        => LET p == call'.path
               parent == parentOf(heap, obj, p).n
               lastKey == split(p)[Len(split(p))]
           IN /\ ret' = get(heap, obj, p, UNDEF)
              /\ get(heap', obj, p, UNDEF) = UNDEF
              /\ Len(heap') = Len(heap)
              /\ \A id \in 1..Len(heap) : id # parent => heap'[id] = heap[id]
              /\ without(heap'[parent], lastKey) = without(heap[parent], lastKey)
    ]_vars

\* C5: after c.set(p, v) with a valid path p, c.get(p) returns v, c.has(p)
\* is true and get(r, p) returns v.
C5_CacheSetAgrees ==
  (call.op = "c.set" /\ validPath(call.path))
    => /\ cache_get(heap, obj, map, call.path, UNDEF).ret = call.val
       /\ cache_has(map, call.path)
       /\ get(heap, obj, call.path, UNDEF) = call.val

\* C7: merge(a, b) returns a, and for every leaf path p of b, get(a, p)
\* equals get(b, p) after the merge.
C7_MergeSourceWins ==
  call.op = "merge"
    => /\ ret = Ref(obj)
       /\ \A i \in 1..Len(snap) :
            ~IsObject(snap[i].value)
              => get(heap, obj, snap[i].path, UNDEF)
                   = get(heap, call.src, snap[i].path, UNDEF)

\* C8: merge(target, source) keeps every leaf of target whose path is not a
\* path of source and has no leaf path of source as a proper prefix.
C8_MergeKeepsTarget ==
  [][ (call'.op = "merge" /\ ~cyclic(heap, obj))
        => LET before == scan(heap, obj)
           IN \A i \in 1..Len(before) :
                ( /\ ~IsObject(before[i].value)
                  /\ ~MapHas(snap', before[i].path)
                  /\ ~\E j \in 1..Len(snap') :
                        /\ ~IsObject(snap'[j].value)
                        /\ properPrefix(snap'[j].path, before[i].path) )
                  => /\ has(heap', obj, before[i].path)
                     /\ get(heap', obj, before[i].path, UNDEF) = before[i].value
    ]_vars

\* C10: after filter(r, fn), no path of the scan taken before the call for
\* which fn returned false is present in r.
C10_FilterRemovesRejected ==
  call.op = "filter"
    => \A i \in 1..Len(snap) :
         ~func(call.fn, snap[i].path, snap[i].value)
           => ~has(heap, obj, snap[i].path)

C4_StaleUntilRefresh ==
  /\ [](( /\ call.op = "c.get"
          /\ "set" \notin dirty
          /\ MapHas(scan(base, obj), call.path) )
          => ret = get(base, obj, call.path, UNDEF))
  /\ [][ (call.op = "c.refresh" /\ call'.op = "c.get")
           => ret' = get(heap', obj, call'.path, call'.val) ]_vars

\* c.get returned the value of an indexed path that r no longer holds there
C4_Witness ==
  /\ call.op = "c.get"
  /\ dirty = {"direct"}
  /\ MapHas(scan(base, obj), call.path)
  /\ ret # get(heap, obj, call.path, UNDEF)

\* C6: c.has(p) reports whether p is in the index: a path added to r
\* directly is reported absent until c.get(p), c.set(p, v) or c.refresh(),
\* and present once c.get(p) or a c.refresh() with p in r has seen it.
C6_HasReportsIndex ==
  call.op = "c.has"
    => /\ ret = Bool(MapHas(map, call.path))
       /\ call.path \in added => ret = Bool(FALSE)
       /\ call.path \in found => ret = Bool(TRUE)

\* c.has answered false for a path that r holds
C6_Witness ==
  /\ call.op = "c.has"
  /\ call.path \in added
  /\ has(heap, obj, call.path)
  /\ ret = Bool(FALSE)

\* C11: after filter(r, fn), every entry (p, v) of the scan taken before
\* the call that fn accepts, and all of whose ancestors fn accepts, is still
\* in r with the same value.
C11_FilterKeepsAccepted ==
  call.op = "filter"
    => \A i \in 1..Len(snap) :
         ( /\ func(call.fn, snap[i].path, snap[i].value)
           /\ \A j \in 1..Len(snap) :
                properPrefix(snap[j].path, snap[i].path)
                  => func(call.fn, snap[j].path, snap[j].value) )
           => /\ has(heap, obj, snap[i].path)
              /\ get(heap, obj, snap[i].path, UNDEF) = snap[i].value

\* the same for an object in which no container is reachable by two paths
\* (it holds there; merge leaves source containers at two paths of target)
FilterKeepsAccepted_tree ==
  (\A i, j \in 1..Len(snap) :
     (i # j /\ IsObject(snap[i].value)) => snap[i].value # snap[j].value)
    => C11_FilterKeepsAccepted

\* C12: map(r, fn) with fn the identity leaves scan(r) unchanged, after the
\* first application and after a second one.
C12_MapIdentity ==
  [][ (call'.op = "map" /\ call'.fn = Fn("identity"))
        => /\ ~cyclic(heap', obj)
           /\ scan(heap', obj) = scan(heap, obj)
           /\ ~cyclic(mapAll(heap', obj, Fn("identity")).h, obj)
           /\ scan(mapAll(heap', obj, Fn("identity")).h, obj) = scan(heap, obj)
    ]_vars

\* a path without any non-empty segment: "" and "."
noSegment(path) ==
  path = <<>> \/ \A i \in 1..Len(split(path)) : split(path)[i] = <<>>

\* what a call of set must return and leave alone (op names the definition)
setReturns(op) ==
  call'.op = op
    => IF noSegment(call'.path)
         THEN ret' = Bool(FALSE) /\ SubSeq(heap', 1, Len(heap)) = heap
         ELSE ret' = Bool(TRUE)

\* C13: set(r, p, v) returns false exactly when p is the empty string or has
\* no non-empty segment, and then leaves r unchanged; for every other path
\* it returns true.
C13_SetReturn == [][setReturns("set") /\ setReturns("set2")]_vars

\* the same for the set of the get/set/has module alone (it holds there)
SetReturn_set2 == [][setReturns("set2")]_vars

\* a call of set with a valid path changes r only along the path
setAlongPath(op) ==
  (call'.op = op /\ validPath(call'.path))
    => LET address == split(call'.path)
           n == Len(address)
           prefix(i) == dotted(SubSeq(address, 1, i))
       IN /\ without(heap'[obj], address[1]) = without(heap[obj], address[1])
          /\ \A i \in 1..(n - 1) :
               LET before == get(heap, obj, prefix(i), UNDEF)
                   after == get(heap', obj, prefix(i), UNDEF)
               IN IF IsObject(before)
                    THEN /\ after = before
                         /\ without(heap'[after.n], address[i + 1])
                              = without(heap[before.n], address[i + 1])
                    ELSE /\ IsObject(after)
                         /\ after.n > Len(heap)
                         /\ after # call'.val
                         /\ without(heap'[after.n], address[i + 1]) = <<>>
          /\ has(heap', obj, call'.path)
          /\ get(heap', obj, call'.path, UNDEF) = call'.val
          /\ \A q \in ValidPaths :
               ( /\ q # call'.path
                 /\ ~properPrefix(q, call'.path)
                 /\ ~properPrefix(call'.path, q) )
                 => /\ has(heap', obj, q) = has(heap, obj, q)
                    /\ get(heap', obj, q, UNDEF) = get(heap, obj, q, UNDEF)

\* C14: set(r, p, v) with a valid path keeps every container on p with its
\* other children, puts a fresh empty mapping where an intermediate is absent
\* or not a container, assigns v at the final segment, and leaves has and get
\* unchanged for every path that is neither a prefix nor an extension of p.
C14_SetAlongPath == [][setAlongPath("set") /\ setAlongPath("set2")]_vars

\* the same for the set of the get/set/has module alone
SetAlongPath_set2 == [][setAlongPath("set2")]_vars

\* the index entry of path p agrees with r
agrees(h, m, p) ==
  MapHas(m, p) /\ has(h, obj, p) /\ MapGet(m, p) = get(h, obj, p, UNDEF)

\* p is q, an ancestor of q or a descendant of q
related(p, q) == p = q \/ properPrefix(p, q) \/ properPrefix(q, p)

\* C15: with r written by c.set only, every path p in c's index satisfies
\* has(r, p) and its indexed value equals get(r, p).
C15_CacheConsistent ==
  \A i \in 1..Len(map) : agrees(heap, map, map[i].path)

\* C15, amended: c.refresh makes every index entry agree with r; c.get and
\* c.has leave r and every existing entry as they are, and c.get of a path
\* that is not indexed inserts get(r, p, def); c.set(q, v) indexes q -> v and
\* every entry that agreed with r and whose path is neither q, an ancestor
\* of q nor a descendant of q still agrees.
C15_ConsistentOffPath ==
  [][ /\ call'.op = "c.refresh"
           => \A i \in 1..Len(map') : agrees(heap', map', map'[i].path)
      /\ call'.op \in {"c.get", "c.has"}
           => /\ heap' = heap
              /\ \A i \in 1..Len(map) : map'[i] = map[i]
      /\ (call'.op = "c.get" /\ ~MapHas(map, call'.path))
           => /\ Len(map') = Len(map) + 1
              /\ MapGet(map', call'.path)
                   = get(heap, obj, call'.path, call'.val)
      /\ call'.op = "c.set"
           => /\ MapGet(map', call'.path) = call'.val
              /\ \A i \in 1..Len(map) :
                   ( /\ agrees(heap, map, map[i].path)
                     /\ ~related(map[i].path, call'.path) )
                     => agrees(heap', map', map[i].path)
    ]_vars

\* after c.set(q, v), an entry off q's path still agrees with r while the
\* entry of an ancestor or a descendant of q does not
C15_Witness ==
  /\ call.op = "c.set"
  /\ "direct" \notin dirty
  /\ \E i, j \in 1..Len(map) :
       /\ ~related(map[i].path, call.path)
       /\ agrees(heap, map, map[i].path)
       /\ map[j].path # call.path
       /\ related(map[j].path, call.path)
       /\ ~agrees(heap, map, map[j].path)

====
